---- MODULE Spec2Model ----
(***************************************************************************)
(* torch_kalman: the KalmanFilter driver (kalman_filter/base.py) and the   *)
(* process behaviour its tests pin down (tests/test_process.py).           *)
(*                                                                         *)
(* A batch holds one scalar state and one measure per group, so every      *)
(* "matrix" F, Q, H, R of a group at a timestep is a number and a belief   *)
(* is a mean and a variance per group.  Means and variances are exact      *)
(* rationals <<numerator, denominator>>.  Beliefs are objects of a heap:   *)
(* predict and update_from_input allocate, compute_measurement writes to   *)
(* the object it is called on.                                             *)
(***************************************************************************)
EXTENDS Integers, Sequences, FiniteSets, TLC

VARIABLES
    heap,     \* the StateBelief objects, by identity (index)
    pc,       \* where the driver is: "idle", "forward", "forecast", "returned", "raised"
    call,     \* the arguments of the call being served
    dfb,      \* the DesignForBatch of the call
    sp,       \* `state_prediction`: the heap index of the current belief
    t,        \* the loop variable of forward / forecast
    out,      \* `state_predictions` / `forecasts`: heap indices appended so far
    log,      \* every call the driver made on the design and on beliefs, in order
    ret,      \* what the call returned or raised
    pre,      \* the heap as it was when the call was made
    kept,     \* the StateBeliefOverTime of an earlier call that the caller holds
    proc,     \* a Process on its own: built, materialized for a batch, propagated
    prep      \* a ForecastPreprocessor and the result of its last pd_to_array

vars == <<heap, pc, call, dfb, sp, t, out, log, ret, pre, kept, proc, prep>>

\* All that belongs to the KalmanFilter and its caller.
filter_vars == <<heap, pc, call, dfb, sp, t, out, log, ret, pre, kept>>

(***************************** bounds **************************************)
MaxGroups == 2
MaxT == 3
MaxMeasures == 2

(************************* exact rationals *********************************)
Abs(x) == IF x < 0 THEN -x ELSE x

RECURSIVE GCD(_, _)
GCD(a, b) == IF b = 0 THEN a ELSE GCD(b, a % b)

Rat(n, d) == LET g == GCD(Abs(n), d) IN <<n \div g, d \div g>>
RInt(n) == <<n, 1>>
RAdd(x, y) == Rat(x[1] * y[2] + y[1] * x[2], x[2] * y[2])
RSub(x, y) == Rat(x[1] * y[2] - y[1] * x[2], x[2] * y[2])
RMul(x, y) == Rat(x[1] * y[1], x[2] * y[2])
RDiv(x, y) == IF y[1] > 0 THEN Rat(x[1] * y[2], x[2] * y[1])
                          ELSE Rat(-(x[1] * y[2]), x[2] * (-y[1]))

\* A function over 1..n as the tuple of its values.
Vec(f) == f \o <<>>

(***************************** values **************************************)
None == 0            \* Python's None where a heap index is expected
NaN == <<>>          \* a missing cell of the input; an observed cell is <<v>>
InputVals == {NaN, <<1>>}
NoMeasurement == <<>>  \* H, R and the measurement of a belief before compute_measurement

\* Design.measure_size: the filter is built with one measure.
measure_size == 1

\* The inputs of shape (g, n, m): cell [group][time + 1] is the measurement
\* vector of that group and time, every measure of it holding the same value.
Inputs(g, n, m) ==
    { [num_groups |-> g, num_timesteps |-> n, num_measures |-> m, vals |-> v] :
        v \in [1..g -> [1..n -> InputVals]] }

\* family.get_input_dim(input)
get_input_dim(input) == <<input.num_groups, input.num_timesteps, input.num_measures>>

\* Nothing returned or held yet; no DesignForBatch built yet.
NoResult == [exc |-> "none"]
NoDesign == [num_groups |-> 0, num_timesteps |-> 0, cov |-> <<>>]

(************************ Design / DesignForBatch **************************)
\* Design.for_batch(num_groups, num_timesteps, **kwargs)
design_for_batch(num_groups, num_timesteps, kwargs) ==
    [num_groups |-> num_groups, num_timesteps |-> num_timesteps, cov |-> kwargs]

\* The phase of group g at timestep time: its covariate moves with time.
Phase(d, g, time) == (d.cov[g] + time) % 2

\* DesignForBatch.F(t), Q(t), H(t), R(t): one number per group.
F(d, time) == Vec([g \in 1..d.num_groups |-> 1 + Phase(d, g, time)])
Q(d, time) == Vec([g \in 1..d.num_groups |-> 1 + (time % 2)])
H(d, time) == Vec([g \in 1..d.num_groups |-> 2 - Phase(d, g, time)])
R(d, time) == Vec([g \in 1..d.num_groups |-> 2 - (time % 2)])

\* DesignForBatch.initial_mean / initial_covariance
initial_mean(d) == Vec([g \in 1..d.num_groups |-> RInt(0)])
initial_covariance(d) == Vec([g \in 1..d.num_groups |-> RInt(1)])

(****************************** StateBelief ********************************)
\* family(means=, covs=, last_measured=): a belief with no measurement attached
Gaussian(means, covs, last_measured) ==
    [means |-> Vec(means), covs |-> Vec(covs), last_measured |-> Vec(last_measured),
     H |-> NoMeasurement, R |-> NoMeasurement,
     meas_means |-> NoMeasurement, meas_covs |-> NoMeasurement]

num_groups(b) == Len(b.means)

\* StateBelief.predict(F, Q): a new belief, mean' = F mean, cov' = F cov F + Q
predict(b, Fm, Qm) ==
    Gaussian([g \in 1..num_groups(b) |-> RMul(RInt(Fm[g]), b.means[g])],
             [g \in 1..num_groups(b) |->
                 RAdd(RMul(RInt(Fm[g] * Fm[g]), b.covs[g]), RInt(Qm[g]))],
             b.last_measured)

\* StateBelief.compute_measurement(H, R): the belief with H mean and
\* H cov H + R attached to it
compute_measurement(b, Hm, Rm) ==
    [b EXCEPT !.H = Hm, !.R = Rm,
              !.meas_means = Vec([g \in 1..num_groups(b) |-> RMul(RInt(Hm[g]), b.means[g])]),
              !.meas_covs = Vec([g \in 1..num_groups(b) |->
                  RAdd(RMul(RInt(Hm[g] * Hm[g]), b.covs[g]), RInt(Rm[g]))])]

\* The Kalman gain of group g: cov H / (H cov H + R)
Gain(b, g) == RDiv(RMul(b.covs[g], RInt(b.H[g])), b.meas_covs[g])

\* StateBelief.update_from_input(input, time): a new belief; a group whose
\* cell is missing keeps its mean and covariance and ages by one
update_from_input(b, input, time) ==
    LET y(g) == input.vals[g][time + 1]
        seen(g) == y(g) # NaN
        resid(g) == RSub(RInt(y(g)[1]), b.meas_means[g])
    IN Gaussian(
        [g \in 1..num_groups(b) |->
            IF seen(g) THEN RAdd(b.means[g], RMul(Gain(b, g), resid(g)))
                       ELSE b.means[g]],
        [g \in 1..num_groups(b) |->
            IF seen(g)
            THEN RMul(RSub(RInt(1), RMul(Gain(b, g), RInt(b.H[g]))), b.covs[g])
            ELSE b.covs[g]],
        [g \in 1..num_groups(b) |->
            IF seen(g) THEN 1 ELSE b.last_measured[g] + 1])

\* family.concatenate_over_time(state_beliefs, design): the beliefs' values
\* stacked along time, and the objects they were read from
concatenate_over_time(h, state_beliefs) ==
    [state_beliefs |-> state_beliefs,
     over_time |-> [i \in 1..Len(state_beliefs) |-> h[state_beliefs[i]]]]

(****************************** KalmanFilter *******************************)
\* KalmanFilter.predict_initial_state(design_for_batch)
predict_initial_state(d) ==
    Gaussian(initial_mean(d), initial_covariance(d), [g \in 1..d.num_groups |-> 1])

\* The ValueError of forward
MeasureSizeError(input) ==
    [exc |-> "ValueError", expected |-> measure_size, shape |-> get_input_dim(input)]

\* The end of a loop body: compute_measurement(H(t), R(t)) on the belief at
\* index s, which the body then appends to its output.
Emit(h, s, d, time, l) ==
    [heap |-> [h EXCEPT ![s] = compute_measurement(h[s], H(d, time), R(d, time))],
     sp |-> s,
     log |-> l \o << <<"H", time>>, <<"R", time>>, <<"compute_measurement">> >>]

\* The heap with belief b and its prediction by F(t-1), Q(t-1) added.
WithPredicted(h, b, d, time) ==
    h \o <<b, predict(b, F(d, time - 1), Q(d, time - 1))>>

\* forward's loop body corrected with the input of the same timestep.
ForwardIter_SameStep(h, s, input, d, time) ==
    IF time > 0
    THEN Emit(WithPredicted(h, update_from_input(h[s], input, time), d, time),
              Len(h) + 2, d, time,
              << <<"update_from_input", time>>, <<"F", time - 1>>,
                 <<"Q", time - 1>>, <<"predict">> >>)
    ELSE Emit(h, s, d, time, <<>>)

\* forward's loop body correcting every group with the first group's input.
ForwardIter_FirstRow(h, s, input, d, time) ==
    IF time > 0
    THEN Emit(WithPredicted(h,
                  update_from_input(h[s],
                      [input EXCEPT !.vals = [g \in 1..input.num_groups |-> input.vals[1]]],
                      time - 1),
                  d, time),
              Len(h) + 2, d, time,
              << <<"update_from_input", time - 1>>, <<"F", time - 1>>,
                 <<"Q", time - 1>>, <<"predict">> >>)
    ELSE Emit(h, s, d, time, <<>>)

\* One pass of forward's loop body at time `time` on heap h with
\* state_prediction at index s: the heap, state_prediction and the calls made.
ForwardIter(h, s, input, d, time) ==
    IF time > 0
    THEN Emit(WithPredicted(h, update_from_input(h[s], input, time - 1), d, time),
              Len(h) + 2, d, time,
              << <<"update_from_input", time - 1>>, <<"F", time - 1>>,
                 <<"Q", time - 1>>, <<"predict">> >>)
    ELSE Emit(h, s, d, time, <<>>)

\* The beliefs a caller builds itself to pass as initial_state or states:
\* g groups with distinct means, no measurement attached.
CallerBeliefs(g) ==
    { Gaussian([i \in 1..g |-> RInt(i - 1 + k)], [i \in 1..g |-> RInt(1)],
               [i \in 1..g |-> 1]) : k \in 0..1 }

\* forward building its DesignForBatch before it looks at the input's shape.
forward_enter_LateCheck(h0, input, initial_state, kwargs) ==
    /\ pc = "idle"
    /\ call' = [op |-> "forward", input |-> input, initial_state |-> initial_state,
                kwargs |-> kwargs]
    /\ pre' = h0
    /\ dfb' = design_for_batch(input.num_groups, input.num_timesteps, kwargs)
    /\ log' = << <<"design_for_batch", input.num_groups, input.num_timesteps>> >>
    /\ heap' = IF initial_state = None THEN Append(h0, predict_initial_state(dfb'))
                                       ELSE h0
    /\ sp' = IF initial_state = None THEN Len(h0) + 1 ELSE initial_state
    /\ t' = 0
    /\ out' = <<>>
    /\ IF get_input_dim(input)[3] # measure_size
       THEN pc' = "raised" /\ ret' = MeasureSizeError(input)
       ELSE pc' = "forward" /\ ret' = ret
    /\ UNCHANGED <<kept, proc, prep>>

\* forward, from its entry to the start of the loop
forward_enter(h0, input, initial_state, kwargs) ==
    /\ pc = "idle"
    /\ call' = [op |-> "forward", input |-> input, initial_state |-> initial_state,
                kwargs |-> kwargs]
    /\ pre' = h0
    /\ IF get_input_dim(input)[3] # measure_size
       THEN /\ pc' = "raised"
            /\ ret' = MeasureSizeError(input)
            /\ heap' = h0
            /\ UNCHANGED <<dfb, sp, t, out, log, kept, proc, prep>>
       ELSE LET d == design_for_batch(input.num_groups, input.num_timesteps, kwargs)
            IN /\ dfb' = d
               /\ log' = << <<"design_for_batch", d.num_groups, d.num_timesteps>> >>
               /\ IF initial_state = None
                  THEN /\ heap' = Append(h0, predict_initial_state(d))
                       /\ sp' = Len(h0) + 1
                  ELSE /\ heap' = h0
                       /\ sp' = initial_state
               /\ t' = 0
               /\ out' = <<>>
               /\ pc' = "forward"
               /\ UNCHANGED <<ret, kept, proc, prep>>

\* one iteration of forward's loop
forward_iter ==
    /\ pc = "forward"
    /\ t < dfb.num_timesteps
    /\ \E r \in {ForwardIter(heap, sp, call.input, dfb, t)} :
          /\ heap' = r.heap
          /\ sp' = r.sp
          /\ log' = log \o r.log
          /\ out' = Append(out, r.sp)
    /\ t' = t + 1
    /\ UNCHANGED <<pc, call, dfb, ret, pre, kept, proc, prep>>

\* forward's return
forward_return ==
    /\ pc = "forward"
    /\ t = dfb.num_timesteps
    /\ ret' = concatenate_over_time(heap, out)
    /\ pc' = "returned"
    /\ UNCHANGED <<heap, call, dfb, sp, t, out, log, pre, kept, proc, prep>>

\* forward's loop from iteration `time` to its end.
RECURSIVE ForwardLoop(_, _, _, _, _, _, _)
ForwardLoopAfter(r, o, l, input, d, time) ==
    ForwardLoop(r.heap, r.sp, Append(o, r.sp), l \o r.log, input, d, time + 1)

ForwardLoop(h, s, o, l, input, d, time) ==
    IF time >= d.num_timesteps
    THEN [heap |-> h, sp |-> s, out |-> o, log |-> l]
    ELSE ForwardLoopAfter(ForwardIter(h, s, input, d, time), o, l, input, d, time)

\* forward's loop on design d from the start it was given.
ForwardRun(h0, input, initial_state, d) ==
    ForwardLoop(IF initial_state = None THEN Append(h0, predict_initial_state(d)) ELSE h0,
                IF initial_state = None THEN Len(h0) + 1 ELSE initial_state,
                <<>>, << <<"design_for_batch", d.num_groups, d.num_timesteps>> >>,
                input, d, 0)

\* forward from call to return, in one step
forward(h0, input, initial_state, kwargs) ==
    IF get_input_dim(input)[3] # measure_size
    THEN forward_enter(h0, input, initial_state, kwargs)
    ELSE \E r \in {ForwardRun(h0, input, initial_state,
                      design_for_batch(input.num_groups, input.num_timesteps, kwargs))} :
            /\ pc = "idle"
            /\ call' = [op |-> "forward", input |-> input,
                        initial_state |-> initial_state, kwargs |-> kwargs]
            /\ pre' = h0
            /\ dfb' = design_for_batch(input.num_groups, input.num_timesteps, kwargs)
            /\ heap' = r.heap
            /\ sp' = r.sp
            /\ out' = r.out
            /\ log' = r.log
            /\ t' = input.num_timesteps
            /\ ret' = concatenate_over_time(r.heap, r.out)
            /\ pc' = "returned"
            /\ UNCHANGED <<kept, proc, prep>>

\* smooth with an empty body.
smooth_Pass(states) ==
    /\ pc = "idle"
    /\ call' = [op |-> "smooth", states |-> states]
    /\ pre' = heap
    /\ pc' = "returned"
    /\ ret' = NoResult
    /\ UNCHANGED <<heap, dfb, sp, t, out, log, kept, proc, prep>>

\* KalmanFilter.smooth(states)
smooth(states) ==
    /\ pc = "idle"
    /\ call' = [op |-> "smooth", states |-> states]
    /\ pre' = heap
    /\ pc' = "raised"
    /\ ret' = [exc |-> "NotImplementedError"]
    /\ UNCHANGED <<heap, dfb, sp, t, out, log, kept, proc, prep>>


(************************* StateBeliefOverTime *****************************)
\* StateBeliefOverTime.state_belief_for_time(times): a new belief holding,
\* for each group, its mean and covariance at that group's time
state_belief_for_time(sbot, times) ==
    Gaussian([g \in 1..Len(times) |-> sbot.over_time[times[g] + 1].means[g]],
             [g \in 1..Len(times) |-> sbot.over_time[times[g] + 1].covs[g]],
             [g \in 1..Len(times) |-> sbot.over_time[times[g] + 1].last_measured[g]])

\* StateBeliefOverTime.last_prediction(): the same at every group's last time
last_prediction(sbot) ==
    state_belief_for_time(sbot,
        [g \in 1..num_groups(sbot.over_time[1]) |-> Len(sbot.over_time) - 1])

(*************************** KalmanFilter.forecast *************************)
\* from_times=None
NoTimes == <<>>

\* One pass of forecast's loop body at time `time`.
ForecastIter(h, s, d, time) ==
    IF time > 0
    THEN Emit(Append(h, predict(h[s], F(d, time - 1), Q(d, time - 1))),
              Len(h) + 1, d, time,
              << <<"F", time - 1>>, <<"Q", time - 1>>, <<"predict">> >>)
    ELSE Emit(h, s, d, time, <<>>)

\* forecast's prior with from_times ignored.
ForecastPrior_IgnoresTimes(h0, states, from_times) ==
    IF "belief" \in DOMAIN states
    THEN [heap |-> h0, sp |-> states.belief]
    ELSE [heap |-> Append(h0, last_prediction(states.over_time)), sp |-> Len(h0) + 1]

\* The prior forecast starts from: the heap and the index of state_prediction.
\* `states` is [belief |-> index] for a StateBelief and [over_time |-> sbot]
\* for a StateBeliefOverTime.
ForecastPrior(h0, states, from_times) ==
    IF from_times = NoTimes
    THEN IF "belief" \in DOMAIN states
         THEN [heap |-> h0, sp |-> states.belief]
         ELSE [heap |-> Append(h0, last_prediction(states.over_time)), sp |-> Len(h0) + 1]
    ELSE [heap |-> Append(h0, state_belief_for_time(states.over_time, from_times)),
          sp |-> Len(h0) + 1]

\* forecast, from its entry to the start of the loop
forecast_enter(h0, states, horizon, from_times, kwargs) ==
    /\ pc = "idle"
    /\ call' = [op |-> "forecast", states |-> states, horizon |-> horizon,
                from_times |-> from_times, kwargs |-> kwargs]
    /\ pre' = h0
    /\ IF ~(horizon > 0)
       THEN /\ pc' = "raised"
            /\ ret' = [exc |-> "AssertionError"]
            /\ heap' = h0
            /\ UNCHANGED <<dfb, sp, t, out, log, kept, proc, prep>>
       ELSE \E p \in {ForecastPrior(h0, states, from_times)} :
            \E d \in {design_for_batch(num_groups(p.heap[p.sp]), horizon, kwargs)} :
               /\ heap' = p.heap
               /\ sp' = p.sp
               /\ dfb' = d
               /\ log' = << <<"design_for_batch", d.num_groups, d.num_timesteps>> >>
               /\ t' = 0
               /\ out' = <<>>
               /\ pc' = "forecast"
               /\ UNCHANGED <<ret, kept, proc, prep>>

\* one iteration of forecast's loop
forecast_iter ==
    /\ pc = "forecast"
    /\ t < dfb.num_timesteps
    /\ \E r \in {ForecastIter(heap, sp, dfb, t)} :
          /\ heap' = r.heap
          /\ sp' = r.sp
          /\ log' = log \o r.log
          /\ out' = Append(out, r.sp)
    /\ t' = t + 1
    /\ UNCHANGED <<pc, call, dfb, ret, pre, kept, proc, prep>>

\* forecast's return
forecast_return ==
    /\ pc = "forecast"
    /\ t = dfb.num_timesteps
    /\ ret' = concatenate_over_time(heap, out)
    /\ pc' = "returned"
    /\ UNCHANGED <<heap, call, dfb, sp, t, out, log, pre, kept, proc, prep>>

\* forecast's loop from iteration `time` to its end.
RECURSIVE ForecastLoop(_, _, _, _, _, _)
ForecastLoopAfter(r, o, l, d, time) ==
    ForecastLoop(r.heap, r.sp, Append(o, r.sp), l \o r.log, d, time + 1)

ForecastLoop(h, s, o, l, d, time) ==
    IF time >= d.num_timesteps
    THEN [heap |-> h, sp |-> s, out |-> o, log |-> l]
    ELSE ForecastLoopAfter(ForecastIter(h, s, d, time), o, l, d, time)

\* forecast's loop on design d from prior p.
ForecastRun(p, d) ==
    ForecastLoop(p.heap, p.sp, <<>>,
                 << <<"design_for_batch", d.num_groups, d.num_timesteps>> >>, d, 0)

\* forecast from call to return, in one step
forecast(h0, states, horizon, from_times, kwargs) ==
    IF ~(horizon > 0)
    THEN forecast_enter(h0, states, horizon, from_times, kwargs)
    ELSE \E p \in {ForecastPrior(h0, states, from_times)} :
         \E d \in {design_for_batch(num_groups(p.heap[p.sp]), horizon, kwargs)} :
         \E r \in {ForecastRun(p, d)} :
            /\ pc = "idle"
            /\ call' = [op |-> "forecast", states |-> states, horizon |-> horizon,
                        from_times |-> from_times, kwargs |-> kwargs]
            /\ pre' = h0
            /\ dfb' = d
            /\ heap' = r.heap
            /\ sp' = r.sp
            /\ out' = r.out
            /\ log' = r.log
            /\ t' = d.num_timesteps
            /\ ret' = concatenate_over_time(r.heap, r.out)
            /\ pc' = "returned"
            /\ UNCHANGED <<kept, proc, prep>>

(*************************** KalmanFilter.simulate *************************)
MaxIter == 2

\* Tensor.repeat along the batch axis: the rows, n times over.
repeat(rows, n) ==
    Vec([r \in 1..(Len(rows) * n) |-> rows[((r - 1) % Len(rows)) + 1]])

\* Tensor.repeat_interleave: every row n times in a row.
repeat_Interleave(rows, n) ==
    Vec([r \in 1..(Len(rows) * n) |-> rows[((r - 1) \div n) + 1]])

\* torch.chunk(rows, n): consecutive pieces of ceil(len / n) rows each.
chunk(rows, n) ==
    LET size == (Len(rows) + n - 1) \div n
        count == (Len(rows) + size - 1) \div size
    IN Vec([i \in 1..count |->
              SubSeq(rows, (i - 1) * size + 1,
                     IF i * size < Len(rows) THEN i * size ELSE Len(rows))])

\* The white noise a call is made with, or draws: one number per row and time.
WhiteNoise(rows, n) ==
    { [r \in 1..rows |-> [s \in 1..n |-> r]],
      [r \in 1..rows |-> [s \in 1..n |-> (r + s) % 2]] }

\* The simulated states of row r from mean m and variance c: the start is
\* drawn around the mean, every later state is F times the one before plus
\* noise scaled by Q.
RECURSIVE TrajectoryRow(_, _, _, _, _, _)
TrajectoryRow(m, c, d, r, eps, n) ==
    IF n = 1
    THEN <<RAdd(m, RMul(RInt(eps[r][1]), c))>>
    ELSE LET before == TrajectoryRow(m, c, d, r, eps, n - 1)
         IN Append(before,
                   RAdd(RMul(RInt(F(d, n - 2)[r]), before[n - 1]),
                        RInt(eps[r][n] * Q(d, n - 2)[r])))

\* StateBelief.simulate_trajectories(design_for_batch, eps): one trajectory
\* per row of the belief
simulate_trajectories(b, d, eps) ==
    Vec([r \in 1..num_groups(b) |->
           TrajectoryRow(b.means[r], b.covs[r], d, r, eps, d.num_timesteps)])

\* The measurements of row r along its trajectory x: H x plus noise scaled by R.
MeasurementRow(x, d, r, eps) ==
    Vec([s \in 1..Len(x) |->
           RAdd(RMul(RInt(H(d, s - 1)[r]), x[s]), RInt(eps[r][s] * R(d, s - 1)[r]))])

\* StateBeliefOverTime.sample_measurements(eps)
sample_measurements(trajectories, d, eps) ==
    Vec([r \in 1..Len(trajectories) |-> MeasurementRow(trajectories[r], d, r, eps)])

\* The belief simulate starts from, before it is replicated.
SimulatePrior(h0, states, from_times) ==
    IF from_times = NoTimes
    THEN IF "belief" \in DOMAIN states
         THEN h0[states.belief]
         ELSE last_prediction(states.over_time)
    ELSE state_belief_for_time(states.over_time, from_times)

\* The belief with every group num_iter times in a row.
Replicated_Interleaved(b, num_iter) ==
    Gaussian(repeat_Interleave(b.means, num_iter), repeat_Interleave(b.covs, num_iter),
             repeat_Interleave(b.last_measured, num_iter))

\* The belief replicated num_iter times along the batch axis.
Replicated(b, num_iter) ==
    Gaussian(repeat(b.means, num_iter), repeat(b.covs, num_iter),
             repeat(b.last_measured, num_iter))

\* simulate from call to return: `noise` is <<process noise, measure noise>>,
\* `state_to_measured` is None or the caller's function, here the one that
\* returns the simulated states themselves.
simulate(h0, states, horizon, num_iter, from_times, state_to_measured, noise, kwargs) ==
    /\ pc = "idle"
    /\ call' = [op |-> "simulate", states |-> states, horizon |-> horizon,
                num_iter |-> num_iter, from_times |-> from_times,
                state_to_measured |-> state_to_measured, white_noise |-> noise,
                kwargs |-> kwargs]
    /\ pre' = h0
    /\ IF ~(horizon > 0)
       THEN /\ pc' = "raised"
            /\ ret' = [exc |-> "AssertionError"]
            /\ heap' = h0
            /\ UNCHANGED <<dfb, sp, t, out, log, kept, proc, prep>>
       ELSE \E b \in {Replicated(SimulatePrior(h0, states, from_times), num_iter)} :
            \E d \in {design_for_batch(num_groups(b), horizon, kwargs)} :
            \E x \in {simulate_trajectories(b, d, noise[1])} :
               /\ heap' = Append(h0, b)
               /\ sp' = Len(h0) + 1
               /\ dfb' = d
               /\ log' = << <<"design_for_batch", d.num_groups, d.num_timesteps>>,
                            <<"simulate_trajectories">> >>
               /\ ret' = [chunks |->
                            chunk(IF state_to_measured = None
                                  THEN sample_measurements(x, d, noise[2])
                                  ELSE x,
                                  num_iter)]
               /\ pc' = "returned"
               /\ UNCHANGED <<t, out, kept, proc, prep>>

(******************************* the caller ********************************)
\* The caller keeps the StateBeliefOverTime it got and is ready to call again.
Keep ==
    /\ pc = "returned"
    /\ call.op \in {"forward", "forecast"}
    /\ kept = NoResult
    /\ kept' = [state_beliefs |-> ret.state_beliefs, over_time |-> ret.over_time,
                call |-> call]
    /\ pc' = "idle"
    /\ call' = [op |-> "none"]
    /\ ret' = NoResult
    /\ log' = <<>>
    /\ UNCHANGED <<heap, dfb, sp, t, out, pre, proc, prep>>

\* The two covariate patterns a call is made with.
Covariates(g) == {[i \in 1..g |-> 0], [i \in 1..g |-> i % 2]}

\* forward(input, **kwargs): the design's own initial state
CallForward ==
    /\ pc = "idle"
    /\ \E g \in 1..MaxGroups, n \in 1..MaxT, m \in 1..MaxMeasures :
         \E input \in Inputs(g, n, m), kwargs \in Covariates(g) :
           forward_enter(heap, input, None, kwargs)

\* forward(input, initial_state=b, **kwargs) with a belief b of the caller's
CallForwardFrom ==
    /\ pc = "idle"
    /\ \E g \in 1..MaxGroups, n \in 1..MaxT, m \in 1..MaxMeasures :
         \E input \in Inputs(g, n, m), kwargs \in Covariates(g), b \in CallerBeliefs(g) :
           forward_enter(Append(heap, b), input, Len(heap) + 1, kwargs)

\* smooth(states) on no belief (<<>>) or on a belief b of the caller's (<<b>>)
CallSmooth ==
    /\ pc = "idle"
    /\ \/ smooth(<<>>)
       \/ \E g \in 1..MaxGroups : \E b \in CallerBeliefs(g) : smooth(<<b>>)

\* forecast(b, horizon, **kwargs) from a belief b of the caller's
CallForecast ==
    /\ pc = "idle"
    /\ kept = NoResult
    /\ \E g \in 1..MaxGroups, horizon \in 0..MaxT :
         \E b \in CallerBeliefs(g), kwargs \in Covariates(g) :
           forecast_enter(Append(heap, b), [belief |-> Len(heap) + 1], horizon,
                          NoTimes, kwargs)

\* forecast(kept, horizon, from_times, **kwargs) from the result held
CallForecastOverTime ==
    /\ pc = "idle"
    /\ kept # NoResult
    /\ LET g == num_groups(kept.over_time[1])
       IN \E horizon \in 1..MaxT, kwargs \in Covariates(g) :
            \E from_times \in {NoTimes} \cup [1..g -> 0..(Len(kept.over_time) - 1)] :
              forecast_enter(heap, [over_time |-> kept], horizon, from_times, kwargs)

(****************************** Season process ****************************)
MaxPeriod == 4
MaxDuration == 2

RECURSIVE SumTo(_, _)
SumTo(v, n) == IF n = 0 THEN 0 ELSE SumTo(v, n - 1) + v[n]

\* The sum of a vector; a matrix times a vector (torch.mm / matmul).
Sum(v) == SumTo(v, Len(v))
MatVec(M, v) == Vec([i \in 1..Len(M) |-> Sum([j \in 1..Len(v) |-> M[i][j] * v[j]])])

\* The ValueError of a process materialized without a covariate it needs;
\* the message is kept in pieces, the second and the fourth being the ones
\* it puts in backquotes.
MissingCovariate(id) ==
    [exc |-> "ValueError",
     msg |-> <<"Must pass ", "start_datetimes", " to process ", id, ".">>]

\* Season(id, seasonal_period, season_duration, season_start, dt_unit) and
\* add_measure('measure'): season_start is None or a date, in dt_unit.
Season(id, seasonal_period, season_duration, season_start) ==
    [stage |-> "process", id |-> id, seasonal_period |-> seasonal_period,
     season_duration |-> season_duration, season_start |-> season_start,
     measures |-> <<"measure">>]

\* The season materialized for a batch: delta is how far each group starts
\* from season_start.
SeasonForBatchOf(p, ng, nt, start_datetimes) ==
    [stage |-> "for_batch", process |-> p, num_groups |-> ng, num_timesteps |-> nt,
     start_datetimes |-> start_datetimes,
     delta |-> Vec([g \in 1..ng |->
                      IF p.season_start = None \/ start_datetimes = <<>> THEN 0
                      ELSE start_datetimes[g] - p.season_start]),
     computed |-> <<>>]

\* for_batch that does not ask for start_datetimes.
Season_for_batch_Unchecked(p, ng, nt, start_datetimes) ==
    SeasonForBatchOf(p, ng, nt, start_datetimes)

\* Season.for_batch(num_groups, num_timesteps, start_datetimes):
\* start_datetimes is <<>> when it is not passed, else a date per group.
Season_for_batch(p, ng, nt, start_datetimes) ==
    IF p.season_start # None /\ start_datetimes = <<>>
    THEN [stage |-> "raised", process |-> p, start_datetimes |-> start_datetimes,
          error |-> MissingCovariate(p.id), computed |-> <<>>]
    ELSE SeasonForBatchOf(p, ng, nt, start_datetimes)

\* Whether group g moves to its next season between time and time + 1.
InTransition(b, g, time) ==
    ((b.delta[g] + time) % b.process.season_duration) = b.process.season_duration - 1

\* The transition matrix with the first row a plain circular shift.
SeasonF_Circular(b, g, time) ==
    LET P == b.process.seasonal_period
    IN Vec([i \in 1..P |-> Vec([j \in 1..P |->
          IF InTransition(b, g, time)
          THEN IF i = 1 THEN (IF j = P THEN 1 ELSE 0)
                        ELSE (IF j = i - 1 THEN 1 ELSE 0)
          ELSE IF i = j THEN 1 ELSE 0])])

\* The transition matrix of group g at `time`: in a transition every state
\* moves one place on and the first becomes minus the sum of those that
\* moved; otherwise the state stays.
SeasonF(b, g, time) ==
    LET P == b.process.seasonal_period
    IN Vec([i \in 1..P |-> Vec([j \in 1..P |->
          IF InTransition(b, g, time)
          THEN IF i = 1 THEN (IF j < P THEN -1 ELSE 0)
                        ELSE (IF j = i - 1 THEN 1 ELSE 0)
          ELSE IF i = j THEN 1 ELSE 0])])

\* The measurement matrix: one row that reads the first state.
SeasonH(b, g, time) ==
    <<Vec([j \in 1..b.process.seasonal_period |-> IF j = 1 THEN 1 ELSE 0])>>

\* The state vectors tried: 0/1 vectors, as they are and with the first
\* component set to minus the sum of the rest.
StateVectors(P) ==
    LET raw == [1..P -> 0..1]
    IN {Vec(v) : v \in raw} \cup {Vec([v EXCEPT ![1] = v[1] - Sum(v)]) : v \in raw}

\* A season is built.
NewSeason ==
    /\ proc.stage = "none"
    /\ \E id \in {"day_of_week", "season"}, P \in 2..MaxPeriod, dur \in 1..MaxDuration,
          start \in {None, 1} :
         proc' = Season(id, P, dur, start)
    /\ UNCHANGED <<filter_vars, prep>>

\* season.for_batch(num_groups, num_timesteps[, start_datetimes])
SeasonForBatch ==
    /\ proc.stage = "process"
    /\ \E ng \in 1..MaxGroups, nt \in 1..MaxT :
         \E sd \in {<<>>, Vec([g \in 1..ng |-> 1]), Vec([g \in 1..ng |-> 1 + g])} :
           proc' = Season_for_batch(proc, ng, nt, sd)
    /\ UNCHANGED <<filter_vars, prep>>

\* state = torch.mm(batch.F(time)[g], state), and batch.H(time)[g] read
SeasonPropagate ==
    /\ proc.stage = "for_batch"
    /\ \E g \in 1..proc.num_groups, time \in 0..(proc.num_timesteps - 1) :
         \E v \in StateVectors(proc.process.seasonal_period) :
           proc' = [proc EXCEPT !.stage = "propagated",
                                !.computed = << <<"F", time>>, <<"H", time>> >>]
                   @@ [group |-> g, time |-> time, before |-> v,
                       after |-> MatVec(SeasonF(proc, g, time), v),
                       Hm |-> SeasonH(proc, g, time)]
    /\ UNCHANGED <<filter_vars, prep>>

(**************************** LocalTrend process ***************************)
MaxSteps == 3

\* A matrix of rationals times a vector of rationals, for a state of two.
RMatVec2(M, v) ==
    <<RAdd(RMul(M[1][1], v[1]), RMul(M[1][2], v[2])),
      RAdd(RMul(M[2][1], v[1]), RMul(M[2][2], v[2]))>>

\* decay_velocity=False, decay=False
NoDecay == <<>>

\* LocalTrend(id, decay_velocity) and add_measure('measure'): decay_velocity
\* is NoDecay or the bounds <<low, high>> of the decay; `decay` is the value
\* the process stores for it, 1 when there is no decay.
LocalTrend(id, decay_velocity, decay) ==
    [stage |-> "trend", id |-> id, decay_velocity |-> decay_velocity,
     decay |-> IF decay_velocity = NoDecay THEN RInt(1) ELSE decay,
     measures |-> <<"measure">>]

\* design.for_batch(num_groups, num_timesteps) of the design of one trend.
LocalTrend_for_batch(p, ng, nt) ==
    [stage |-> "trend_batch", process |-> p, num_groups |-> ng, num_timesteps |-> nt]

\* A transition matrix that never moves the level.
LocalTrendF_Still(b, g, time) ==
    << <<RInt(1), RInt(0)>>, <<RInt(0), b.process.decay>> >>

\* The transition matrix of group g at `time`: the level takes the velocity
\* in, the velocity is kept, times its decay.
LocalTrendF(b, g, time) ==
    << <<RInt(1), RInt(1)>>, <<RInt(0), b.process.decay>> >>

\* The measurement matrix: one row that reads the level.
LocalTrendH(b, g, time) == << <<RInt(1), RInt(0)>> >>

\* The levels and velocities a propagation starts from.
TrendStarts ==
    {<<l, v>> : l \in {RInt(0), RInt(1), Rat(-3, 2)},
                v \in {Rat(-1, 2), RInt(0), RInt(1), Rat(1, 3)}}

\* A trend is built, without decay or with a decay inside its bounds.
NewLocalTrend ==
    /\ proc.stage = "none"
    /\ \/ proc' = LocalTrend("test", NoDecay, RInt(1))
       \/ \E d \in {Rat(3, 4), Rat(2, 3)} :
            proc' = LocalTrend("test", <<Rat(1, 2), RInt(1)>>, d)
    /\ UNCHANGED <<filter_vars, prep>>

\* batch_vel = design.for_batch(num_groups, num_timesteps)
LocalTrendForBatch ==
    /\ proc.stage = "trend"
    /\ \E ng \in 1..MaxGroups, nt \in 1..MaxT :
         proc' = LocalTrend_for_batch(proc, ng, nt)
    /\ UNCHANGED <<filter_vars, prep>>

\* state_mean = Tensor([[level0], [velocity0]])
LocalTrendStart ==
    /\ proc.stage = "trend_batch"
    /\ \E s \in TrendStarts :
         proc' = [proc EXCEPT !.stage = "trend_run"]
                 @@ [start |-> s, state_mean |-> s, n |-> 0]
    /\ UNCHANGED <<filter_vars, prep>>

\* state_mean = torch.mm(batch_vel.F(time)[g], state_mean)
LocalTrendPropagate ==
    /\ proc.stage = "trend_run"
    /\ proc.n < MaxSteps
    /\ \E g \in 1..proc.num_groups, time \in 0..(proc.num_timesteps - 1) :
         proc' = [proc EXCEPT !.state_mean = RMatVec2(LocalTrendF(proc, g, time), @),
                              !.n = @ + 1]
    /\ UNCHANGED <<filter_vars, prep>>

(************************** ForecastPreprocessor ***************************)
MaxDate == 3
MaxRows == 3

\* The groups and the measurement labels a dataframe may name, and the
\* dates, in a unit of which `freq` is one or two.
DfGroups == {1, 2}
DfMeasures == {1, 2}
DfDates == 0..MaxDate

\* A row of the long dataframe; its value tells the row it came from.
DfRow(g, m, d) == [group |-> g, measure |-> m, date |-> d, value |-> <<100 * g + 10 * m + d>>]

RECURSIVE SubsetsUpTo(_, _)
SubsetsUpTo(S, n) ==
    IF n = 0 THEN {{}}
    ELSE LET smaller == SubsetsUpTo(S, n - 1)
         IN smaller \cup {A \cup {x} : A \in smaller, x \in S}

\* The dataframes tried: at most MaxRows rows, one per group, measure and date.
Dataframes == SubsetsUpTo({DfRow(g, m, d) : g \in DfGroups, m \in DfMeasures, d \in DfDates}, MaxRows)

SetMin(S) == CHOOSE x \in S : \A y \in S : x <= y
SetMax(S) == CHOOSE x \in S : \A y \in S : x >= y

\* sorted(...): the members of a set of numbers in increasing order.
RECURSIVE sorted(_)
sorted(S) == IF S = {} THEN <<>> ELSE <<SetMin(S)>> \o sorted(S \ {SetMin(S)})

\* round(x) of Python 3 for a rational x >= 0: to the nearest integer, a
\* half to the even one.
round(x) ==
    LET q == x[1] \div x[2]
        r2 == 2 * (x[1] % x[2])
    IN IF r2 < x[2] THEN q
       ELSE IF r2 > x[2] THEN q + 1
       ELSE IF q % 2 = 0 THEN q ELSE q + 1

\* timedelta_int(t1, t2): (t1 - t2) / freq as an integer, and whether the
\* division came out even (it raises ValueError when it did not).
timedelta_int(freq, t1, t2) ==
    [out |-> (t1 - t2) \div freq, even |-> (t1 - t2) % freq = 0]

\* get_measurement_info(dataframe) for the rows of one measure of one group,
\* sorted by date.
get_measurement_info(freq, rows) ==
    LET dates == sorted({r.date : r \in rows})
        diffs == {dates[k + 1] - dates[k] : k \in 1..(Len(dates) - 1)}
        start_date == dates[1]
    IN IF \E d \in diffs : d = 0 THEN [exc |-> "ValueError", at |-> "same date"]
       ELSE IF \E d \in diffs : d < freq THEN [exc |-> "ValueError", at |-> "less than freq"]
       ELSE IF \E k \in 1..Len(dates) : ~timedelta_int(freq, dates[k], start_date).even
       THEN [exc |-> "ValueError", at |-> "timedelta_int"]
       ELSE [exc |-> "none",
             start_date |-> start_date,
             end_date |-> dates[Len(dates)],
             values |-> [k \in 1..Len(dates) |->
                           (CHOOSE r \in rows : r.date = dates[k]).value],
             idx |-> [k \in 1..Len(dates) |-> timedelta_int(freq, dates[k], start_date).out],
             idx_dtype |-> "int"]

\* A measure put in place of one left out (the group has no row of it): one
\* NaN at np.zeros(1), an index array of floats.
MissingMeasurement == [exc |-> "none", values |-> <<NaN>>, idx |-> <<0>>, idx_dtype |-> "float"]

\* get_group_info(dataframe) for the rows of one group.
get_group_info(measurements, freq, rows) ==
    LET present == {r.measure : r \in rows}
        info == [m \in present |-> get_measurement_info(freq, {r \in rows : r.measure = m})]
        in_list == {measurements[i] : i \in 1..Len(measurements)}
    IN IF \E m \in present : info[m].exc # "none"
       THEN [exc |-> "ValueError"]
       ELSE IF ~(present \subseteq in_list)
       THEN [exc |-> "Exception", at |-> "not in self.measurements"]
       ELSE LET start_date == SetMin({info[m].start_date : m \in present})
                end_date == SetMax({start_date} \cup {info[m].end_date : m \in present})
            IN IF \E m \in present : ~timedelta_int(freq, info[m].start_date, start_date).even
               THEN [exc |-> "ValueError"]
               ELSE [exc |-> "none",
                     start_date |-> start_date,
                     end_date |-> end_date,
                     length |-> timedelta_int(freq, end_date, start_date).out,
                     measurement_info |->
                        [m \in in_list |->
                           IF m \notin present THEN MissingMeasurement
                           ELSE [info[m] EXCEPT !.idx =
                                   [k \in DOMAIN @ |->
                                      @[k] + timedelta_int(freq, info[m].start_date, start_date).out]]]]

\* x[g_idx, idx, m_idx] = values on the column of one group and measure.
RECURSIVE AssignCells(_, _, _, _)
AssignCells(col, idx, values, k) ==
    IF k > Len(idx) THEN col
    ELSE AssignCells([col EXCEPT ![idx[k] + 1] = values[k]], idx, values, k + 1)

\* ForecastPreprocessor(measurements, ..., freq)
ForecastPreprocessor(measurements, freq) ==
    [stage |-> "built", freq |-> freq,
     measurements |-> sorted({measurements[i] : i \in 1..Len(measurements)})]

\* pd_to_array(dataframe, min_len_prop): the array, dim_info and the start
\* dates, or the exception raised. date_dtype is the dtype of the date column.
pd_to_array(self, dataframe, date_dtype, min_len_prop) ==
    LET groups == {r.group : r \in dataframe}
        info_per_group ==
            [g \in groups |->
               get_group_info(self.measurements, self.freq, {r \in dataframe : r.group = g})]
    IN IF date_dtype # "datetime64" THEN [exc |-> "Exception", at |-> "date column"]
       ELSE IF \E g \in groups : info_per_group[g].exc # "none"
       THEN [exc |-> info_per_group[SetMin({g \in groups : info_per_group[g].exc # "none"})].exc]
       ELSE IF groups = {} THEN [exc |-> "ValueError", at |-> "max of nothing"]
       ELSE LET longest_group_length == SetMax({info_per_group[g].length : g \in groups})
                group_length_min == round(RMul(RInt(longest_group_length), min_len_prop))
                kept_groups == sorted({g \in groups : info_per_group[g].length >= group_length_min})
                blank == [i \in 1..(longest_group_length + 1) |-> NaN]
            IN IF \E i \in 1..Len(kept_groups), m \in 1..Len(self.measurements) :
                    info_per_group[kept_groups[i]].measurement_info[self.measurements[m]].idx_dtype # "int"
               THEN [exc |-> "IndexError", at |-> "arrays used as indices must be of integer type"]
               ELSE [exc |-> "none",
                     x |-> [i \in 1..Len(kept_groups) |->
                              LET cols == [m \in 1..Len(self.measurements) |->
                                             LET vi == info_per_group[kept_groups[i]]
                                                         .measurement_info[self.measurements[m]]
                                             IN AssignCells(blank, vi.idx, vi.values, 1)]
                              IN [tt \in 1..(longest_group_length + 1) |->
                                    [m \in 1..Len(self.measurements) |-> cols[m][tt]]]],
                     dim_info |-> [group |-> kept_groups,
                                   timesteps |-> longest_group_length + 1,
                                   measurement |-> self.measurements],
                     start_dates |-> [i \in 1..Len(kept_groups) |->
                                        info_per_group[kept_groups[i]].start_date]]

\* A preprocessor is built for one or two measurements and a freq.
NewPreprocessor ==
    /\ prep.stage = "none"
    /\ \E measurements \in {<<1>>, <<1, 2>>, <<2, 1>>}, freq \in 1..2 :
         prep' = ForecastPreprocessor(measurements, freq)
    /\ UNCHANGED <<filter_vars, proc>>

\* x, dim_info, start_dates = preprocessor.pd_to_array(dataframe, min_len_prop)
PdToArray ==
    /\ prep.stage = "built"
    /\ \E dataframe \in Dataframes, date_dtype \in {"datetime64", "object"},
          min_len_prop \in {RInt(0), Rat(1, 2), RInt(1)} :
         prep' = [stage |-> "returned", self |-> prep, dataframe |-> dataframe,
                  date_dtype |-> date_dtype, min_len_prop |-> min_len_prop,
                  ret |-> pd_to_array(prep, dataframe, date_dtype, min_len_prop)]
    /\ UNCHANGED <<filter_vars, proc>>

(***************************** progress reporting **************************)
\* range(n)
range(n) == [i \in 1..n |-> i - 1]

\* What a caller passes as `progress`: False, True, or a progress bar of its
\* own to be called on the range (tqdm_notebook, say).
Progresses == {"False", "True", "tqdm_notebook"}

\* identity(x): the range itself, with no bar.
identity(r) == [items |-> r, bar |-> "none"]

\* tqdm(iterable), and the caller's like of it: an iterator that yields the
\* items of the iterable in their order and counts them on its bar.
tqdm(name, r) == [items |-> r, bar |-> name]

\* An iterator whose bar takes the first item for itself.
ProgressIterator_SkipsFirst(progress, r) ==
    IF progress = "False" THEN identity(r)
    ELSE tqdm(IF progress = "True" THEN "tqdm" ELSE progress, Tail(r))

\* progress = progress or identity; if progress is True: progress = tqdm;
\* iterator = progress(range(n))
ProgressIterator(progress, r) ==
    IF progress = "False" THEN identity(r)
    ELSE IF progress = "True" THEN tqdm("tqdm", r)
    ELSE tqdm(progress, r)

\* `for t in iterator`: what is logged when the iterator yields its k-th item.
Yield(it, k) ==
    IF it.bar = "none" THEN << <<"for", it.items[k]>> >>
    ELSE << <<"bar", it.bar, k>>, <<"for", it.items[k]>> >>

\* forward's loop over the iterator from its k-th item on.
RECURSIVE ForwardOver(_, _, _, _, _, _, _, _)
ForwardOverAfter(r, o, l, input, d, it, k) ==
    ForwardOver(r.heap, r.sp, Append(o, r.sp), l \o r.log, input, d, it, k + 1)

ForwardOver(h, s, o, l, input, d, it, k) ==
    IF k > Len(it.items)
    THEN [heap |-> h, sp |-> s, out |-> o, log |-> l]
    ELSE ForwardOverAfter(ForwardIter(h, s, input, d, it.items[k]),
                          o, l \o Yield(it, k), input, d, it, k)

\* forward(input, initial_state, progress, **kwargs) from call to return.
forward_progress(h0, input, initial_state, progress, kwargs) ==
    IF get_input_dim(input)[3] # measure_size
    THEN forward_enter(h0, input, initial_state, kwargs)
    ELSE \E d \in {design_for_batch(input.num_groups, input.num_timesteps, kwargs)} :
         \E r \in {ForwardOver(
                     IF initial_state = None THEN Append(h0, predict_initial_state(d)) ELSE h0,
                     IF initial_state = None THEN Len(h0) + 1 ELSE initial_state,
                     <<>>, << <<"design_for_batch", d.num_groups, d.num_timesteps>> >>,
                     input, d, ProgressIterator(progress, range(input.num_timesteps)), 1)} :
            /\ pc = "idle"
            /\ call' = [op |-> "forward", input |-> input, initial_state |-> initial_state,
                        progress |-> progress, kwargs |-> kwargs]
            /\ pre' = h0
            /\ dfb' = d
            /\ heap' = r.heap
            /\ sp' = r.sp
            /\ out' = r.out
            /\ log' = r.log
            /\ t' = input.num_timesteps
            /\ ret' = concatenate_over_time(r.heap, r.out)
            /\ pc' = "returned"
            /\ UNCHANGED <<kept, proc, prep>>

\* forecast's loop over the iterator from its k-th item on.
RECURSIVE ForecastOver(_, _, _, _, _, _, _)
ForecastOverAfter(r, o, l, d, it, k) ==
    ForecastOver(r.heap, r.sp, Append(o, r.sp), l \o r.log, d, it, k + 1)

ForecastOver(h, s, o, l, d, it, k) ==
    IF k > Len(it.items)
    THEN [heap |-> h, sp |-> s, out |-> o, log |-> l]
    ELSE ForecastOverAfter(ForecastIter(h, s, d, it.items[k]), o, l \o Yield(it, k), d, it, k)

\* forecast(states, horizon, from_times, progress, **kwargs) from call to return.
forecast_progress(h0, states, horizon, from_times, progress, kwargs) ==
    IF ~(horizon > 0)
    THEN forecast_enter(h0, states, horizon, from_times, kwargs)
    ELSE \E p \in {ForecastPrior(h0, states, from_times)} :
         \E d \in {design_for_batch(num_groups(p.heap[p.sp]), horizon, kwargs)} :
         \E r \in {ForecastOver(p.heap, p.sp, <<>>,
                                << <<"design_for_batch", d.num_groups, d.num_timesteps>> >>,
                                d, ProgressIterator(progress, range(d.num_timesteps)), 1)} :
            /\ pc = "idle"
            /\ call' = [op |-> "forecast", states |-> states, horizon |-> horizon,
                        from_times |-> from_times, progress |-> progress, kwargs |-> kwargs]
            /\ pre' = h0
            /\ dfb' = d
            /\ heap' = r.heap
            /\ sp' = r.sp
            /\ out' = r.out
            /\ log' = r.log
            /\ t' = d.num_timesteps
            /\ ret' = concatenate_over_time(r.heap, r.out)
            /\ pc' = "returned"
            /\ UNCHANGED <<kept, proc, prep>>

\* a first forward, with or without a progress bar
ProgressForward ==
    /\ pc = "idle"
    /\ kept = NoResult
    /\ \E g \in 1..MaxGroups, n \in 1..MaxT, progress \in Progresses :
         \E input \in Inputs(g, n, measure_size), kwargs \in Covariates(g) :
           forward_progress(heap, input, None, progress, kwargs)

\* the same forward again, with another `progress`
ProgressForwardAgain ==
    /\ pc = "idle"
    /\ kept # NoResult
    /\ kept.call.op = "forward"
    /\ \E progress \in Progresses \ {kept.call.progress} :
         forward_progress(heap, kept.call.input, kept.call.initial_state, progress,
                          kept.call.kwargs)

\* a first forecast from a belief of the caller's
ProgressForecast ==
    /\ pc = "idle"
    /\ kept = NoResult
    /\ \E g \in 1..MaxGroups, horizon \in 1..MaxT, progress \in Progresses :
         \E b \in CallerBeliefs(g), kwargs \in Covariates(g) :
           forecast_progress(Append(heap, b), [belief |-> Len(heap) + 1], horizon, NoTimes,
                             progress, kwargs)

\* the same forecast again with another `progress`, from a belief equal to
\* the one the first call got
ProgressForecastAgain ==
    /\ pc = "idle"
    /\ kept # NoResult
    /\ kept.call.op = "forecast"
    /\ \E progress \in Progresses \ {kept.call.progress} :
         forecast_progress(Append(heap, pre[kept.call.states.belief]),
                           [belief |-> Len(heap) + 1], kept.call.horizon, NoTimes,
                           progress, kept.call.kwargs)

(************************ two calls to compare *****************************)
\* The input with the cell of group g at time s changed (missing <-> observed).
Flip(input, g, s) ==
    [input EXCEPT !.vals[g][s + 1] = IF @ = NaN THEN <<1>> ELSE NaN]

\* The input of group g alone, as a batch of one group.
RowInput(input, g) ==
    [input EXCEPT !.num_groups = 1, !.vals = <<input.vals[g]>>]

\* The belief of group g alone, as a batch of one group, before any measurement.
RowBelief(b, g) == Gaussian(<<b.means[g]>>, <<b.covs[g]>>, <<b.last_measured[g]>>)

\* a first forward, run to its return
PairForward ==
    /\ pc = "idle"
    /\ kept = NoResult
    /\ \E g \in 1..MaxGroups, n \in 1..MaxT :
         \E input \in Inputs(g, n, measure_size), kwargs \in Covariates(g) :
           forward(heap, input, None, kwargs)

\* a first forecast from a belief of the caller's, run to its return
PairForecast ==
    /\ pc = "idle"
    /\ kept = NoResult
    /\ \E g \in 1..MaxGroups, horizon \in 1..MaxT :
         \E b \in CallerBeliefs(g), kwargs \in Covariates(g) :
           forecast(Append(heap, b), [belief |-> Len(heap) + 1], horizon, NoTimes, kwargs)

\* forward again, on the first call's input changed in one cell
ForwardPerturbed ==
    /\ pc = "idle"
    /\ kept # NoResult
    /\ kept.call.op = "forward"
    /\ LET c == kept.call
       IN \E g \in 1..c.input.num_groups, s \in 0..(c.input.num_timesteps - 1) :
            forward(heap, Flip(c.input, g, s), c.initial_state, c.kwargs)

\* forward again, on one group of the first call's batch alone
ForwardSolo ==
    /\ pc = "idle"
    /\ kept # NoResult
    /\ kept.call.op = "forward"
    /\ LET c == kept.call
       IN \E g \in 1..c.input.num_groups :
            forward(heap, RowInput(c.input, g), c.initial_state, <<c.kwargs[g]>>)

\* forecast again, from one group of the first call's belief alone
ForecastSolo ==
    /\ pc = "idle"
    /\ kept # NoResult
    /\ kept.call.op = "forecast"
    /\ LET c == kept.call
       IN \E g \in 1..num_groups(heap[c.states.belief]) :
            forecast(Append(heap, RowBelief(heap[c.states.belief], g)),
                     [belief |-> Len(heap) + 1], c.horizon, NoTimes, <<c.kwargs[g]>>)

\* simulate(b, horizon, num_iter, ...) from a belief b of the caller's
CallSimulate ==
    /\ pc = "idle"
    /\ kept = NoResult
    /\ \E g \in 1..MaxGroups, horizon \in 0..MaxT, num_iter \in 1..MaxIter :
         \E b \in CallerBeliefs(g), kwargs \in Covariates(g * num_iter),
            stm \in {None, 1} :
           \E wn \in WhiteNoise(g * num_iter, horizon) \X WhiteNoise(g * num_iter, horizon) :
             simulate(Append(heap, b), [belief |-> Len(heap) + 1], horizon, num_iter,
                      NoTimes, stm, wn, kwargs)

\* simulate(kept, horizon, num_iter, from_times, ...) from the result held
CallSimulateOverTime ==
    /\ pc = "idle"
    /\ kept # NoResult
    /\ LET g == num_groups(kept.over_time[1])
       IN \E horizon \in 1..MaxT, num_iter \in 1..MaxIter :
            \E kwargs \in Covariates(g * num_iter), stm \in {None, 1} :
              \E from_times \in {NoTimes} \cup [1..g -> 0..(Len(kept.over_time) - 1)] :
                \E wn \in WhiteNoise(g * num_iter, horizon) \X WhiteNoise(g * num_iter, horizon) :
                  simulate(heap, [over_time |-> kept], horizon, num_iter, from_times,
                           stm, wn, kwargs)

Init ==
    /\ heap = <<>>
    /\ pc = "idle"
    /\ call = [op |-> "none"]
    /\ dfb = NoDesign
    /\ sp = None
    /\ t = 0
    /\ out = <<>>
    /\ log = <<>>
    /\ ret = NoResult
    /\ pre = <<>>
    /\ kept = NoResult
    /\ proc = [stage |-> "none"]
    /\ prep = [stage |-> "none"]

Next == CallForward \/ CallForwardFrom \/ forward_iter \/ forward_return \/ CallSmooth

Spec == Init /\ [][Next]_vars

NextForecast ==
    CallForecast \/ CallForecastOverTime \/ forecast_iter \/ forecast_return \/ Keep

SpecForecast == Init /\ [][NextForecast]_vars

NextPair ==
    \/ PairForward \/ PairForecast \/ Keep
    \/ ForwardPerturbed \/ ForwardSolo \/ ForecastSolo

SpecPair == Init /\ [][NextPair]_vars

NextSimulate == PairForecast \/ Keep \/ CallSimulate \/ CallSimulateOverTime

SpecSimulate == Init /\ [][NextSimulate]_vars

NextSeason == NewSeason \/ SeasonForBatch \/ SeasonPropagate

SpecSeason == Init /\ [][NextSeason]_vars

NextTrend ==
    NewLocalTrend \/ LocalTrendForBatch \/ LocalTrendStart \/ LocalTrendPropagate

SpecTrend == Init /\ [][NextTrend]_vars

NextPreprocess == NewPreprocessor \/ PdToArray

SpecPreprocess == Init /\ [][NextPreprocess]_vars

NextProgress ==
    \/ ProgressForward \/ ProgressForwardAgain
    \/ ProgressForecast \/ ProgressForecastAgain
    \/ Keep

SpecProgress == Init /\ [][NextProgress]_vars
(***************************************************************************)
(*                              the claims                                 *)
(***************************************************************************)
\* The calls forward makes in its iterations 0..n, in order.
RECURSIVE ForwardCalls(_)
ForwardCalls(n) ==
    IF n = 0
    THEN << <<"H", 0>>, <<"R", 0>>, <<"compute_measurement">> >>
    ELSE ForwardCalls(n - 1) \o
         << <<"update_from_input", n - 1>>, <<"F", n - 1>>, <<"Q", n - 1>>,
            <<"predict">>, <<"H", n>>, <<"R", n>>, <<"compute_measurement">> >>

\* The calls forecast makes in its iterations 0..n, in order.
RECURSIVE ForecastCalls(_)
ForecastCalls(n) ==
    IF n = 0
    THEN << <<"H", 0>>, <<"R", 0>>, <<"compute_measurement">> >>
    ELSE ForecastCalls(n - 1) \o
         << <<"F", n - 1>>, <<"Q", n - 1>>, <<"predict">>,
            <<"H", n>>, <<"R", n>>, <<"compute_measurement">> >>

ForwardReturned == pc = "returned" /\ call.op = "forward"
ForecastReturned == pc = "returned" /\ call.op = "forecast"

\* The belief forward starts from.
ForwardPrior ==
    IF call.initial_state = None THEN predict_initial_state(dfb)
                                 ELSE pre[call.initial_state]

\* C1: forward on T timesteps returns T beliefs; the one at 0 is the initial
\* belief with the measurement of H(0), R(0) attached and nothing else done to
\* it; the one at t > 0 is the one at t-1 after one update_from_input at time
\* t-1, one predict with F(t-1), Q(t-1) and compute_measurement with H(t),
\* R(t); and these are all the calls forward makes, in this order.
C1_ForwardRecursion ==
    ForwardReturned =>
        LET T == call.input.num_timesteps
            b == ret.over_time
        IN /\ Len(b) = T
           /\ b[1] = compute_measurement(ForwardPrior, H(dfb, 0), R(dfb, 0))
           /\ \A i \in 1..(T - 1) :
                b[i + 1] = compute_measurement(
                              predict(update_from_input(b[i], call.input, i - 1),
                                      F(dfb, i - 1), Q(dfb, i - 1)),
                              H(dfb, i), R(dfb, i))
           /\ log = << <<"design_for_batch", call.input.num_groups, T>> >>
                      \o ForwardCalls(T - 1)

\* A forward over MaxT timesteps of two groups, one observed at both of the
\* first two times and one missing at time 0, has returned.
C1_Witness ==
    /\ ForwardReturned
    /\ call.input.num_timesteps >= 3
    /\ call.input.num_groups >= 2
    /\ call.input.vals[1][1] # NaN /\ call.input.vals[1][2] # NaN
    /\ call.input.vals[2][1] = NaN
    /\ ret.over_time[3].means[1] # ret.over_time[3].means[2]

\* C3: a forward whose input has a measure dimension other than measure_size
\* raises ValueError naming measure_size and the input's shape, with no
\* DesignForBatch built, no accessor or belief call made, no belief created
\* and nothing returned.
C3_MeasureSizeMismatch ==
    (call.op = "forward" /\ call.input.num_measures # measure_size) =>
        /\ pc = "raised"
        /\ ret = [exc |-> "ValueError", expected |-> measure_size,
                  shape |-> <<call.input.num_groups, call.input.num_timesteps,
                              call.input.num_measures>>]
        /\ dfb = NoDesign
        /\ log = <<>>
        /\ out = <<>>
        /\ heap = pre

\* A forward with a caller's initial_state and a two-measure input has raised.
C3_Witness ==
    /\ pc = "raised"
    /\ call.op = "forward"
    /\ call.input.num_measures = 2
    /\ call.initial_state # None
    /\ ret.exc = "ValueError"

\* The prior C4 names for the call made.
C4_Prior ==
    IF "belief" \in DOMAIN call.states
    THEN pre[call.states.belief]
    ELSE IF call.from_times = NoTimes
         THEN last_prediction(call.states.over_time)
         ELSE state_belief_for_time(call.states.over_time, call.from_times)

\* C4: forecast with horizon h > 0 returns h beliefs and never calls
\* update_from_input; the belief at 0 is the prior (the belief given, the
\* last prediction, or the beliefs at from_times) with the measurement of
\* H(0), R(0) attached; the belief at t > 0 is predict(F(t-1), Q(t-1)) of the
\* belief at t-1 followed by compute_measurement(H(t), R(t)).
C4_ForecastRecursion ==
    ForecastReturned =>
        LET b == ret.over_time
        IN /\ Len(b) = call.horizon
           /\ \A i \in 1..Len(log) : log[i][1] # "update_from_input"
           /\ b[1] = compute_measurement(C4_Prior, H(dfb, 0), R(dfb, 0))
           /\ \A i \in 1..(call.horizon - 1) :
                b[i + 1] = compute_measurement(
                              predict(b[i], F(dfb, i - 1), Q(dfb, i - 1)),
                              H(dfb, i), R(dfb, i))
           /\ log = << <<"design_for_batch", num_groups(C4_Prior), call.horizon>> >>
                      \o ForecastCalls(call.horizon - 1)

\* A forecast of three steps from the beliefs an earlier result holds at
\* different times for its two groups has returned.
C4_Witness ==
    /\ ForecastReturned
    /\ "over_time" \in DOMAIN call.states
    /\ call.horizon >= 3
    /\ Len(call.from_times) = 2
    /\ call.from_times[1] # call.from_times[2]
    /\ C4_Prior # last_prediction(call.states.over_time)

\* C5: when a call has returned, every belief that existed when it was made
\* is what it was then: mean, covariance, last_measured and the measurement
\* attached.
C5_BeliefsNeverMutated ==
    pc = "returned" => \A i \in 1..Len(pre) : heap[i] = pre[i]

\* C7: smooth never returns: it raises NotImplementedError, which is not the
\* ValueError of a configuration error, and it changes no belief, design or
\* result.
C7_SmoothNotImplemented ==
    /\ [](call.op = "smooth" =>
            pc = "raised" /\ ret.exc = "NotImplementedError" /\ ret.exc # "ValueError")
    /\ [][(pc = "idle" /\ call'.op = "smooth") =>
            /\ pc' = "raised"
            /\ ret'.exc = "NotImplementedError"
            /\ heap' = heap /\ dfb' = dfb /\ out' = out /\ log' = log
            /\ kept' = kept /\ sp' = sp /\ t' = t]_vars

\* smooth was called on a belief of two groups and has raised.
C7_Witness ==
    /\ call.op = "smooth"
    /\ pc = "raised"
    /\ Len(call.states) = 1
    /\ num_groups(call.states[1]) = 2
\* Two inputs of one shape agree at every time before time `time`.
AgreeBefore(x, y, time) ==
    \A g \in 1..x.num_groups : \A s \in 0..(time - 1) : x.vals[g][s + 1] = y.vals[g][s + 1]

\* The call that returned and the call kept are forwards on inputs of one
\* shape with the same design, covariates and initial state.
TwoForwards ==
    /\ ForwardReturned
    /\ kept # NoResult
    /\ kept.call.op = "forward"
    /\ get_input_dim(kept.call.input) = get_input_dim(call.input)
    /\ kept.call.kwargs = call.kwargs
    /\ kept.call.initial_state = call.initial_state

\* C2: of two forwards with the same design and initial state, the beliefs at
\* index t are the same whenever the inputs agree at all times before t; so
\* the belief at 0 is the same for all inputs, and the input at the last
\* timestep changes nothing.
C2_OneStepAhead ==
    TwoForwards =>
        \A i \in 1..call.input.num_timesteps :
            AgreeBefore(kept.call.input, call.input, i - 1) =>
                ret.over_time[i] = kept.over_time[i]

\* Two forwards over three timesteps whose inputs differ at time 1 alone have
\* returned: their beliefs at time 2 differ, those at times 0 and 1 do not.
C2_Witness ==
    /\ TwoForwards
    /\ call.input.num_timesteps = 3
    /\ AgreeBefore(kept.call.input, call.input, 1)
    /\ ~AgreeBefore(kept.call.input, call.input, 2)
    /\ ret.over_time[3] # kept.over_time[3]
    /\ ret.over_time[2] = kept.over_time[2]

\* Group g of a belief of a batch: every field of it.
Row(b, g) ==
    [means |-> b.means[g], covs |-> b.covs[g], last_measured |-> b.last_measured[g],
     H |-> b.H[g], R |-> b.R[g],
     meas_means |-> b.meas_means[g], meas_covs |-> b.meas_covs[g]]

\* The call that returned is the call kept, made for group g of its batch alone.
SoloOf(g) ==
    /\ pc = "returned"
    /\ kept # NoResult
    /\ call.op = kept.call.op
    /\ g \in DOMAIN kept.call.kwargs
    /\ call.kwargs = <<kept.call.kwargs[g]>>
    /\ IF call.op = "forward"
       THEN /\ call.input = RowInput(kept.call.input, g)
            /\ call.initial_state = kept.call.initial_state
       ELSE /\ call.horizon = kept.call.horizon
            /\ call.from_times = kept.call.from_times
            /\ "belief" \in DOMAIN call.states
            /\ "belief" \in DOMAIN kept.call.states
            /\ pre[call.states.belief] = RowBelief(pre[kept.call.states.belief], g)

\* C8: a forward or forecast on group g alone (its input, its covariates, its
\* prior) returns, at every time, the belief the batch's call returned for g:
\* mean, covariance, last_measured and measurement.
C8_BatchIndependence ==
    \A g \in 1..MaxGroups :
        SoloOf(g) =>
            /\ Len(ret.over_time) = Len(kept.over_time)
            /\ \A i \in 1..Len(ret.over_time) :
                 Row(ret.over_time[i], 1) = Row(kept.over_time[i], g)

\* A forward on the second group of a batch alone has returned, where the
\* batch's two groups, observed differently, ended with different means.
C8_Witness ==
    /\ SoloOf(2)
    /\ call.op = "forward"
    /\ call.input.num_timesteps = 3
    /\ Row(kept.over_time[3], 1).means # Row(kept.over_time[3], 2).means
    /\ Row(kept.over_time[3], 1).covs # Row(kept.over_time[3], 2).covs
SimulateReturned == pc = "returned" /\ call.op = "simulate"

\* The belief simulate was called on, before it is replicated.
C6_Prior == SimulatePrior(pre, call.states, call.from_times)

\* What simulate returns for the trajectory simulated on row r of the
\* replicated batch from the belief's group j.
C6_Simulated(j, r) ==
    LET x == TrajectoryRow(C6_Prior.means[j], C6_Prior.covs[j], dfb, r,
                           call.white_noise[1], call.horizon)
    IN IF call.state_to_measured = None
       THEN MeasurementRow(x, dfb, r, call.white_noise[2])
       ELSE x

\* C6: simulate on a belief of G groups with num_iter = N builds the design
\* for G*N groups and `horizon` timesteps, on a belief whose row r is a copy
\* of group r mod G, and returns N arrays of G trajectories each: row j of
\* array i is the trajectory of group j in replication i (row i*G + j of the
\* replicated batch), counting from 0.
C6_SimulateReplicates ==
    SimulateReturned =>
        LET G == num_groups(C6_Prior)
            N == call.num_iter
        IN /\ dfb.num_groups = G * N
           /\ dfb.num_timesteps = call.horizon
           /\ num_groups(heap[sp]) = G * N
           /\ \A r \in 0..(G * N - 1) :
                RowBelief(heap[sp], r + 1) = RowBelief(C6_Prior, (r % G) + 1)
           /\ Len(ret.chunks) = N
           /\ \A i \in 0..(N - 1) :
                /\ Len(ret.chunks[i + 1]) = G
                /\ \A j \in 0..(G - 1) :
                     ret.chunks[i + 1][j + 1] = C6_Simulated(j + 1, i * G + j + 1)

\* A simulate of two iterations over two steps from the beliefs an earlier
\* result holds for its two groups at different times has returned, and the
\* four trajectories differ.
C6_Witness ==
    /\ SimulateReturned
    /\ call.num_iter = 2
    /\ call.horizon >= 2
    /\ Len(call.from_times) = 2
    /\ call.from_times[1] # call.from_times[2]
    /\ Cardinality({ret.chunks[i][j] : i \in 1..2, j \in 1..2}) = 4
\* for_batch was called on a season that has a season_start, without
\* start_datetimes.
C9_Case ==
    /\ proc.stage \in {"raised", "for_batch", "propagated"}
    /\ proc.process.season_start # None
    /\ proc.start_datetimes = <<>>

\* C9: a Season with a season_start materialized without start_datetimes
\* raises ValueError, the message naming the process by its id, and no
\* matrix has been computed; for_batch raises in no other case.
C9_SeasonNeedsStartDatetimes ==
    /\ C9_Case =>
         /\ proc.stage = "raised"
         /\ proc.error.exc = "ValueError"
         /\ proc.error.msg =
              <<"Must pass ", "start_datetimes", " to process ", proc.process.id, ".">>
         /\ proc.computed = <<>>
    /\ proc.stage = "raised" => C9_Case

\* The season 'day_of_week' with a season_start was materialized without
\* start_datetimes and raised.
C9_Witness ==
    /\ C9_Case
    /\ proc.stage = "raised"
    /\ proc.process.id = "day_of_week"
    /\ proc.process.season_duration = 1
    /\ proc.process.seasonal_period >= 3

\* The case of C10: a season of duration 1 with its anchor, propagated once.
C10_Case ==
    /\ proc.stage = "propagated"
    /\ proc.process.season_duration = 1
    /\ proc.process.season_start # None

\* C10: one propagation by F moves every state one place on (s'[i] = s[i-1]
\* for 1 <= i < P, counting from 0), makes the first state minus the sum of
\* the others, so that a zero-sum state stays zero-sum, and H is the one row
\* (1, 0, ..., 0).
C10_SeasonShift ==
    C10_Case =>
        LET P == proc.process.seasonal_period
            s0 == proc.before
            s1 == proc.after
        IN /\ Len(s1) = P
           /\ \A i \in 2..P : s1[i] = s0[i - 1]
           /\ s1[1] = -(Sum(s1) - s1[1])
           /\ Sum(s0) = 0 => Sum(s1) = 0
           /\ proc.Hm = <<[j \in 1..P |-> IF j = 1 THEN 1 ELSE 0]>>

\* A season of period at least 3, of duration 1 and with its anchor, was
\* propagated from a zero-sum state that is not all zero.
C10_Witness ==
    /\ C10_Case
    /\ proc.process.seasonal_period >= 3
    /\ Sum(proc.before) = 0
    /\ proc.before[1] < 0
    /\ proc.after # proc.before

\* The case of C11: a trend without velocity decay, materialized for a batch.
C11_Case ==
    /\ proc.stage \in {"trend_batch", "trend_run"}
    /\ proc.process.decay_velocity = NoDecay

\* C11: without velocity decay the transition matrix of every group at every
\* timestep is [[1, 1], [0, 1]], and after n propagations from
\* [level0, velocity0] the level is level0 + n * velocity0 and the velocity is
\* velocity0.
C11_TrendExact ==
    C11_Case =>
        /\ \A g \in 1..proc.num_groups, time \in 0..(proc.num_timesteps - 1) :
             LocalTrendF(proc, g, time) = << <<RInt(1), RInt(1)>>, <<RInt(0), RInt(1)>> >>
        /\ proc.stage = "trend_run" =>
             /\ proc.state_mean[1] =
                  RAdd(proc.start[1], RMul(RInt(proc.n), proc.start[2]))
             /\ proc.state_mean[2] = proc.start[2]

\* The run of the test: from level 1 and velocity -1/2, three propagations
\* later the level is -1/2.
C11_Witness ==
    /\ C11_Case
    /\ proc.stage = "trend_run"
    /\ proc.start = <<RInt(1), Rat(-1, 2)>>
    /\ proc.n = 3
    /\ proc.state_mean = <<Rat(-1, 2), Rat(-1, 2)>>

\* pd_to_array returned or raised on a dataframe that it does not reject:
\* its date column holds dates, it has rows, and no ValueError or Exception
\* of the checks on its measures and dates was raised.
C13_Case ==
    /\ prep.stage = "returned"
    /\ prep.ret.exc \notin {"ValueError", "Exception"}

\* The value that the array is to hold for group g, measure m and timestep
\* index tt, counted from 0.
C13_Cell(g, m, tt) ==
    LET df == prep.dataframe
        start == SetMin({r.date : r \in {q \in df : q.group = g}})
        at == {r \in df : r.group = g /\ r.measure = m /\ r.date = start + tt * prep.self.freq}
    IN IF at = {} THEN NaN ELSE (CHOOSE r \in at : TRUE).value

\* C13: pd_to_array gives a dense (groups, timesteps, measures) array where
\* the cell of a retained group g, measure m and timestep t holds the value
\* of the row of (g, m) dated start(g) + t * freq when there is one and NaN
\* otherwise, start(g) being the earliest date of any measure of g.
C13_DenseArray ==
    C13_Case =>
        /\ prep.ret.exc = "none"
        /\ LET x == prep.ret.x
               info == prep.ret.dim_info
           IN /\ Len(x) = Len(info.group)
              /\ \A i \in 1..Len(info.group), tt \in 0..(info.timesteps - 1) :
                   /\ Len(x[i]) = info.timesteps
                   /\ Len(x[i][tt + 1]) = Len(info.measurement)
                   /\ \A m \in 1..Len(info.measurement) :
                        x[i][tt + 1][m] = C13_Cell(info.group[i], info.measurement[m], tt)

\* The timesteps whose loop body ran, in the order they ran.
Visited ==
    LET fors == SelectSeq(log, LAMBDA e : e[1] = "for")
    IN [i \in 1..Len(fors) |-> fors[i][2]]

\* The call that returned is the call kept, made again: same input, prior,
\* design and covariates, whatever their `progress`.
C14_SameCall ==
    /\ pc = "returned"
    /\ kept # NoResult
    /\ kept.call.op = call.op

====
